---- MODULE Spec2Model ----
(***************************************************************************)
(* Warehouse inventory manager (inventory_manager.py, analytics.py,        *)
(* cli.py).  The store is the list InventoryManager.inventory of dicts     *)
(* whose values are strings; the backing store is the CSV file that        *)
(* save_inventory rewrites and load_inventory reads.                       *)
(*                                                                         *)
(* A Python str is a sequence of one-character strings, a dict is a        *)
(* function from its keys to such sequences, a list is a sequence.         *)
(***************************************************************************)
EXTENDS Integers, Sequences, FiniteSets, TLC

\* ------------------------------------------------------------------ bounds
\* most records the model lets the store hold
MaxInv == 2
\* largest quantity update_quantity is allowed to reach in the model
MaxQty == 2
\* last day of the clock behind datetime.now()
MaxDay == 2
\* most I/O faults injected in one behaviour
MaxFaults == 1
\* stock distribution inputs: list length, largest quantity and reorder level
MaxDistLen == 2
MaxDistQty == 5
MaxDistReorder == 4
\* aggregation inputs: list length
MaxAggLen == 3
MaxTopN == 3
MaxReLen == 3
MaxReadLen == 2
MaxReQty == 1
MaxReReorder == 1
\* bits of the significand the model keeps of a float (a double keeps 53)
FloatBits == 3

\* ------------------------------------------------- str <-> int conversions
Digits == <<"0", "1", "2", "3", "4", "5", "6", "7", "8", "9">>

IsDigit(c) == \E i \in 1..10 : Digits[i] = c

DigitVal(c) == (CHOOSE i \in 1..10 : Digits[i] = c) - 1

AllDigits(s) == \A i \in 1..Len(s) : IsDigit(s[i])

RECURSIVE ParseNat(_)
ParseNat(s) ==
    IF Len(s) = 0 THEN 0
    ELSE 10 * ParseNat(SubSeq(s, 1, Len(s) - 1)) + DigitVal(s[Len(s)])

\* the exception int() raises on text that is no integer literal
ValueError == 1000000

\* Python int(s) for a str: optional sign, then decimal digits
int(s) ==
    IF Len(s) = 0 THEN ValueError
    ELSE IF s[1] = "-" /\ Len(s) > 1 /\ AllDigits(Tail(s)) THEN 0 - ParseNat(Tail(s))
    ELSE IF s[1] = "+" /\ Len(s) > 1 /\ AllDigits(Tail(s)) THEN ParseNat(Tail(s))
    ELSE IF AllDigits(s) THEN ParseNat(s)
    ELSE ValueError

RECURSIVE NatStr(_)
NatStr(n) ==
    IF n < 10 THEN <<Digits[n + 1]>>
    ELSE NatStr(n \div 10) \o <<Digits[(n % 10) + 1]>>

\* Python str(n) for an int
str(n) == IF n < 0 THEN <<"-">> \o NatStr(0 - n) ELSE NatStr(n)

\* datetime.now().strftime('%Y-%m-%d'): the clock is the day of one month,
\* and the stamp its zero-padded two-digit day (year and month are fixed)
strftime(day) == IF day < 10 THEN <<"0">> \o NatStr(day) ELSE NatStr(day)

\* ------------------------------------------------------------ dict helpers
\* dict.update(updates) followed by nothing else: keys of updates overwrite
DictUpdate(product, updates) ==
    [k \in (DOMAIN product) \cup (DOMAIN updates) |->
        IF k \in DOMAIN updates THEN updates[k] ELSE product[k]]

\* product['last_updated'] = stamp
SetItem(product, key, value) ==
    [k \in (DOMAIN product) \cup {key} |-> IF k = key THEN value ELSE product[k]]

\* ----------------------------------------------------------------- inputs
P1 == <<"P", "1">>
P2 == <<"P", "2">>
P3 == <<"P", "3">>

\* ids a caller adds under, and ids a caller looks up (P3 is never added)
Ids == {P1, P2}
LookupIds == {P1, P2, P3}

\* the field dicts handle_add_product collects (cli.py 101-110) and callers
\* of add_product pass: well-formed ones, and one with an empty field
FullProducts ==
    [product_id : Ids,
     product_name : {<<"a">>},
     category : {<<"E">>},
     quantity : {<<"2">>, <<"-", "1">>},
     unit_price : {<<"3">>},
     reorder_level : {<<"2">>},
     supplier : {<<"S">>},
     warehouse_location : {<<"L">>}]

EmptyNameProduct ==
    [product_id |-> P2, product_name |-> <<>>, category |-> <<"E">>,
     quantity |-> <<"2">>, unit_price |-> <<"3">>, reorder_level |-> <<"2">>,
     supplier |-> <<"S">>, warehouse_location |-> <<"L">>]

NewProducts == FullProducts \cup {EmptyNameProduct}

\* partial field maps passed to update_product
UpdateMaps ==
    { [quantity |-> <<"-", "1">>],
      [product_id |-> P2],
      [quantity |-> <<"1">>, product_name |-> <<"a">>] }

\* quantity_change arguments of update_quantity
Deltas == {0 - 1, 1}

\* outcomes of the file system during one save or load
IOFaults == {"open", "write"}

\* the record of the data file the program is started on
SeedProduct ==
    [product_id |-> P1, product_name |-> <<"a">>, category |-> <<"E">>,
     quantity |-> <<"2">>, unit_price |-> <<"3">>, reorder_level |-> <<"2">>,
     supplier |-> <<"S">>, warehouse_location |-> <<"L">>,
     last_updated |-> strftime(1)]

\* ------------------------------------------------------------------ state
VARIABLES
    inventory,   \* InventoryManager.inventory: list of dicts
    file,        \* the CSV file at data_file: [exists, rows]
    today,       \* the day datetime.now() reports
    faults,      \* I/O faults injected so far
    last,        \* the last operation called: [op, out, ret]
    report       \* what the last query or report computed

vars == <<inventory, file, today, faults, last, report>>

NoFile == [exists |-> FALSE, rows |-> <<>>]
NoReport == [critical |-> <<>>, low |-> <<>>, normal |-> <<>>, high |-> <<>>]
NoCall == [op |-> "init", out |-> "", ret |-> "None"]

\* ------------------------------------------------------------- persistence
\* load_inventory: a missing file leaves self.inventory as it is (the
\* constructor set it to []); a read fault empties it; otherwise the rows
load_inventory(inv, f, fault) ==
    IF ~f.exists THEN inv
    ELSE IF fault # "none" THEN <<>>
    ELSE f.rows

\* csv.DictWriter with fieldnames = inventory[0].keys(): one row per record,
\* holding the record's values under the first record's keys
CsvRows(inv) == [i \in 1..Len(inv) |-> [k \in DOMAIN inv[1] |-> inv[i][k]]]

\* save_inventory: the file after the call.  An empty inventory returns
\* before any write; a fault in makedirs/open leaves the file as it was; a
\* fault during the write leaves the file truncated
save_inventory(inv, f, fault) ==
    IF inv = <<>> THEN f
    ELSE IF fault = "open" THEN f
    ELSE IF fault = "write" THEN [exists |-> TRUE, rows |-> <<>>]
    ELSE [exists |-> TRUE, rows |-> CsvRows(inv)]

\* save_inventory without its try/except: an I/O fault leaves the call
save_raises_uncaught(inv, fault) == inv # <<>> /\ fault # "none"

\* whether save_inventory lets an exception out: `except Exception` at
\* lines 58-59 catches every I/O fault
save_raises(inv, fault) == FALSE

\* faults a call may meet, and the fault count after it
FaultChoices == IF faults < MaxFaults THEN IOFaults \cup {"none"} ELSE {"none"}
Count(fault) == IF fault = "none" THEN faults ELSE faults + 1

\* ------------------------------------------------------------------- Init
Init ==
    /\ file \in {NoFile, [exists |-> TRUE, rows |-> <<SeedProduct>>]}
    /\ inventory = load_inventory(<<>>, file, "none")
    /\ today = 1
    /\ faults = 0
    /\ last = NoCall
    /\ report = NoReport

\* the clock behind datetime.now() moves on
Tick ==
    /\ today < MaxDay
    /\ today' = today + 1
    /\ UNCHANGED <<inventory, file, faults, last, report>>

\* --------------------------------------------------------- the operations
\* Each operation is a function of the store, its arguments and the day; it
\* yields inv (the list afterwards), ret (the value returned), out (the
\* status line the operation prints) and save (whether it called
\* save_inventory).

\* the position of the first record with this id, 0 when there is none
FirstIndex(inv, product_id) ==
    IF \E i \in 1..Len(inv) : inv[i].product_id = product_id
    THEN CHOOSE i \in 1..Len(inv) :
            /\ inv[i].product_id = product_id
            /\ \A j \in 1..(i - 1) : inv[j].product_id # product_id
    ELSE 0

\* get_product: the first match of a linear scan; 0 stands for None
get_product(inv, product_id) == FirstIndex(inv, product_id)

\* add_product putting the new product at the head of the list
add_product_front(inv, product_data, day) ==
    [inv |-> <<SetItem(product_data, "last_updated", strftime(day))>> \o inv,
     ret |-> "None", out |-> "added", save |-> TRUE]

\* add_product: stamp last_updated, append, save; no check of any kind
add_product(inv, product_data, day) ==
    [inv |-> Append(inv, SetItem(product_data, "last_updated", strftime(day))),
     ret |-> "None", out |-> "added", save |-> TRUE]

\* update_product replacing the record by the updates instead of merging
update_product_replacing(inv, product_id, updates, day) ==
    LET i == FirstIndex(inv, product_id) IN
    IF i = 0
    THEN [inv |-> inv, ret |-> "False", out |-> "not found", save |-> FALSE]
    ELSE [inv |-> [inv EXCEPT ![i] =
                      SetItem(DictUpdate([product_id |-> inv[i].product_id], updates),
                              "last_updated", strftime(day))],
          ret |-> "True", out |-> "updated", save |-> TRUE]

\* update_product: the first record with the id gets the updates merged in
\* and a new stamp; the loop returns at the first match
update_product(inv, product_id, updates, day) ==
    LET i == FirstIndex(inv, product_id) IN
    IF i = 0
    THEN [inv |-> inv, ret |-> "False", out |-> "not found", save |-> FALSE]
    ELSE [inv |-> [inv EXCEPT ![i] =
                      SetItem(DictUpdate(inv[i], updates), "last_updated", strftime(day))],
          ret |-> "True", out |-> "updated", save |-> TRUE]

\* delete_product removing the first match only
delete_product_first(inv, product_id) ==
    LET i == FirstIndex(inv, product_id) IN
    IF i # 0
    THEN [inv |-> SubSeq(inv, 1, i - 1) \o SubSeq(inv, i + 1, Len(inv)),
          ret |-> "True", out |-> "deleted", save |-> TRUE]
    ELSE [inv |-> inv, ret |-> "False", out |-> "not found", save |-> FALSE]

\* delete_product: keep every record whose id differs; success when the
\* list got shorter
delete_product(inv, product_id) ==
    LET kept == SelectSeq(inv, LAMBDA p : p.product_id # product_id) IN
    IF Len(kept) < Len(inv)
    THEN [inv |-> kept, ret |-> "True", out |-> "deleted", save |-> TRUE]
    ELSE [inv |-> kept, ret |-> "False", out |-> "not found", save |-> FALSE]

\* update_quantity without the check of new_qty < 0
update_quantity_unchecked(inv, product_id, quantity_change, day) ==
    LET i == get_product(inv, product_id) IN
    IF i = 0
    THEN [inv |-> inv, ret |-> "False", out |-> "", save |-> FALSE]
    ELSE LET current_qty == int(inv[i].quantity)
             new_qty == current_qty + quantity_change
         IN [update_product(inv, product_id, [quantity |-> str(new_qty)], day)
                EXCEPT !.out = "quantity updated"]

\* update_quantity: reject a change that would go below zero, otherwise
\* store str(current + change) through update_product
update_quantity(inv, product_id, quantity_change, day) ==
    LET i == get_product(inv, product_id) IN
    IF i = 0
    THEN [inv |-> inv, ret |-> "False", out |-> "", save |-> FALSE]
    ELSE LET current_qty == int(inv[i].quantity)
             new_qty == current_qty + quantity_change
         IN IF current_qty = ValueError
            THEN [inv |-> inv, ret |-> "raise", out |-> "", save |-> FALSE]
            ELSE IF new_qty < 0
            THEN [inv |-> inv, ret |-> "False", out |-> "below 0", save |-> FALSE]
            ELSE [update_product(inv, product_id, [quantity |-> str(new_qty)], day)
                    EXCEPT !.out = "quantity updated"]

\* all(product_data.values()): every value is a non-empty string
AllValues(product_data) == \A k \in DOMAIN product_data : product_data[k] # <<>>

\* handle_add_product (cli.py): the fields are validated and the id looked
\* up before add_product is called
handle_add_product(inv, product_data, day) ==
    IF ~AllValues(product_data)
    THEN [inv |-> inv, ret |-> "None", out |-> "all fields are required", save |-> FALSE]
    ELSE IF get_product(inv, product_data.product_id) # 0
    THEN [inv |-> inv, ret |-> "None", out |-> "already exists", save |-> FALSE]
    ELSE add_product(inv, product_data, day)

\* ---------------------------------------------------------------- actions
\* one call of an operation whose outcome is r: the store takes r.inv, and
\* when the operation saved, the file takes what save_inventory leaves
Call(op, r) ==
    \E fault \in (IF r.save /\ r.inv # <<>> THEN FaultChoices ELSE {"none"}) :
        /\ inventory' = r.inv
        /\ file' = IF r.save THEN save_inventory(r.inv, file, fault) ELSE file
        /\ faults' = Count(fault)
        /\ last' = [op |-> op, out |-> r.out,
                    ret |-> IF r.save /\ save_raises(r.inv, fault) THEN "raise" ELSE r.ret]
        /\ UNCHANGED <<today, report>>

AddProduct(product_data) ==
    /\ Len(inventory) < MaxInv
    /\ Call("add_product",
            add_product(inventory, product_data, today))

HandleAddProduct(product_data) ==
    /\ Len(inventory) < MaxInv
    /\ Call("handle_add_product",
            handle_add_product(inventory, product_data, today))

UpdateProduct(product_id, updates) ==
    Call("update_product",
         update_product(inventory, product_id, updates, today))

DeleteProduct(product_id) ==
    Call("delete_product", delete_product(inventory, product_id))

UpdateQuantity(product_id, quantity_change) ==
    LET r == update_quantity(inventory, product_id, quantity_change, today) IN
    /\ \A i \in 1..Len(r.inv) :
          int(r.inv[i].quantity) # ValueError => int(r.inv[i].quantity) <= MaxQty
    /\ Call("update_quantity", r)

\* a new InventoryManager on the same data file: __init__ sets the list to
\* [] and calls load_inventory
Restart ==
    \E fault \in (IF file.exists THEN FaultChoices ELSE {"none"}) :
        /\ inventory' = load_inventory(<<>>, file, fault)
        /\ faults' = Count(fault)
        /\ last' = [op |-> "load_inventory", out |-> "", ret |-> "None"]
        /\ UNCHANGED <<file, today, report>>

\* ------------------------------------------------ show_stock_distribution
\* the chain with qty < reorder for the low bucket
Bucket_below(qty, reorder) ==
    IF qty = 0 THEN "critical"
    ELSE IF 4 * qty <= reorder THEN "critical"
    ELSE IF qty < reorder THEN "low"
    ELSE IF qty <= reorder * 2 THEN "normal"
    ELSE "high"

\* the same chain with qty < reorder * 2 for the normal bucket
Bucket_strict(qty, reorder) ==
    IF qty = 0 THEN "critical"
    ELSE IF 4 * qty <= reorder THEN "critical"
    ELSE IF qty <= reorder THEN "low"
    ELSE IF qty < reorder * 2 THEN "normal"
    ELSE "high"

\* the if/elif chain of analytics.py 40-49.  reorder * 0.25 and reorder * 2
\* are exact in floating point for these integers, so qty <= reorder * 0.25
\* is 4 * qty <= reorder
Bucket(qty, reorder) ==
    IF qty = 0 THEN "critical"
    ELSE IF 4 * qty <= reorder THEN "critical"
    ELSE IF qty <= reorder THEN "low"
    ELSE IF qty <= reorder * 2 THEN "normal"
    ELSE "high"

\* the loop with `if qty <= reorder` in place of the second elif: a critical
\* record at or below its reorder level is appended to low as well
RECURSIVE Distribute_if(_, _, _)
Distribute_if(inv, i, buckets) ==
    IF i > Len(inv) THEN buckets
    ELSE LET product == inv[i]
             qty == int(product.quantity)
             reorder == int(product.reorder_level)
             b == IF qty = 0 \/ 4 * qty <= reorder THEN "critical"
                  ELSE IF qty <= reorder THEN "low"
                  ELSE IF qty <= reorder * 2 THEN "normal"
                  ELSE "high"
             first == [buckets EXCEPT ![b] = Append(@, product)]
         IN Distribute_if(inv, i + 1,
                IF b = "critical" /\ qty <= reorder
                THEN [first EXCEPT !.low = Append(@, product)]
                ELSE first)

show_stock_distribution_if(inv) == Distribute_if(inv, 1, NoReport)

\* the loop over manager.inventory: each product is appended to the list
\* its branch names
RECURSIVE Distribute(_, _, _)
Distribute(inv, i, buckets) ==
    IF i > Len(inv) THEN buckets
    ELSE LET product == inv[i]
             b == Bucket(int(product.quantity), int(product.reorder_level))
         IN Distribute(inv, i + 1, [buckets EXCEPT ![b] = Append(@, product)])

show_stock_distribution(inv) == Distribute(inv, 1, NoReport)

\* int() of a quantity or reorder level that is no integer literal raises
Unparsable(inv) ==
    \E i \in 1..Len(inv) :
        int(inv[i].quantity) = ValueError \/ int(inv[i].reorder_level) = ValueError

ShowStockDistribution ==
    /\ last.op # "show_stock_distribution"
    /\ IF Unparsable(inventory)
       THEN /\ report' = report
            /\ last' = [op |-> "show_stock_distribution", out |-> "", ret |-> "raise"]
       ELSE /\ report' = show_stock_distribution(inventory)
            /\ last' = [op |-> "show_stock_distribution", out |-> "", ret |-> "None"]
    /\ UNCHANGED <<inventory, file, today, faults>>

\* get_low_stock_items with quantity < reorder_level
get_low_stock_items_strict(inv) ==
    [inv |-> inv,
     ret |-> SelectSeq(inv, LAMBDA p : int(p.quantity) < int(p.reorder_level)),
     save |-> FALSE]

\* get_low_stock_items: the products with quantity <= reorder_level, in the
\* order of the list
get_low_stock_items(inv) ==
    [inv |-> inv,
     ret |-> SelectSeq(inv, LAMBDA p : int(p.quantity) <= int(p.reorder_level)),
     save |-> FALSE]

GetLowStockItems ==
    /\ inventory' = get_low_stock_items(inventory).inv
    /\ report' = get_low_stock_items(inventory).ret
    /\ last' = [op |-> "get_low_stock_items", out |-> "", ret |-> "None"]
    /\ UNCHANGED <<file, today, faults>>

\* stores for the distribution: records P1, P2, ... in order, each with a
\* quantity and a reorder level of the ranges
DistPairs == ((0 - 1)..MaxDistQty) \X (0..MaxDistReorder)

DistProduct(i, pair) ==
    [product_id |-> <<"P">> \o str(i), product_name |-> <<"a">>, category |-> <<"E">>,
     quantity |-> str(pair[1]), unit_price |-> <<"3">>, reorder_level |-> str(pair[2]),
     supplier |-> <<"S">>, warehouse_location |-> <<"L">>,
     last_updated |-> strftime(1)]

InitDist ==
    /\ \E n \in 0..MaxDistLen : \E f \in [1..n -> DistPairs] :
          inventory = [i \in 1..n |-> DistProduct(i, f[i])]
    /\ file = NoFile
    /\ today = 1
    /\ faults = 0
    /\ last = NoCall
    /\ report = NoReport

NextDist ==
    \/ ShowStockDistribution
    \/ last.op = "init" /\ GetLowStockItems

SpecDist == InitDist /\ [][NextDist]_vars

\* ---------------------------------------------------------------- floats
\* A Python float is a binary floating point number: every result is rounded
\* to the nearest value its significand can hold, ties to the even one.  The
\* values of the model are integers and the significand has FloatBits bits.

\* the spacing of the floats around n >= 0: the least power of two e with
\* n < 2^FloatBits * e
RECURSIVE Spacing(_, _)
Spacing(n, e) == IF n < (2 ^ FloatBits) * e THEN e ELSE Spacing(n, 2 * e)

RoundNat(n) ==
    LET e == Spacing(n, 1)
        q == n \div e
        r == n % e
    IN IF 2 * r > e \/ (2 * r = e /\ q % 2 = 1) THEN (q + 1) * e ELSE q * e

\* the float nearest to the integer x
Round(x) == IF x < 0 THEN 0 - RoundNat(0 - x) ELSE RoundNat(x)

\* float(s) of an integer literal
float(s) == IF int(s) = ValueError THEN ValueError ELSE Round(int(s))

\* a + b of two floats, and quantity * unit_price of an int and a float
FloatAdd(a, b) == Round(a + b)
FloatMul(quantity, unit_price) == Round(Round(quantity) * unit_price)

\* ---------------------------------------------------------------- queries
\* A query is a function of the store; it yields inv (the list afterwards),
\* ret (the value returned) and save (whether it called save_inventory).

\* get_total_inventory_value: total += quantity * unit_price, in list order
RECURSIVE TotalFrom(_, _, _)
TotalFrom(inv, i, total) ==
    IF i > Len(inv) THEN total
    ELSE TotalFrom(inv, i + 1,
            FloatAdd(total, FloatMul(int(inv[i].quantity), float(inv[i].unit_price))))

get_total_inventory_value(inv) ==
    [inv |-> inv, ret |-> TotalFrom(inv, 1, 0), save |-> FALSE]

\* the position of a category in the summary, 0 when it has no entry yet
EntryOf(summary, category) ==
    IF \E k \in 1..Len(summary) : summary[k].category = category
    THEN CHOOSE k \in 1..Len(summary) : summary[k].category = category
    ELSE 0

\* get_category_summary: a dict keeps its keys in the order they were
\* inserted, so the summary is the list of its entries in that order
RECURSIVE SummaryFrom(_, _, _)
SummaryFrom(inv, i, summary) ==
    IF i > Len(inv) THEN summary
    ELSE LET product == inv[i]
             s1 == IF EntryOf(summary, product.category) = 0
                   THEN Append(summary, [category |-> product.category, count |-> 0,
                                         total_quantity |-> 0, total_value |-> 0])
                   ELSE summary
             k == EntryOf(s1, product.category)
         IN SummaryFrom(inv, i + 1,
               [s1 EXCEPT ![k] =
                   [category |-> @.category,
                    count |-> @.count + 1,
                    total_quantity |-> @.total_quantity + int(product.quantity),
                    total_value |-> FloatAdd(@.total_value,
                        FloatMul(int(product.quantity), float(product.unit_price)))]])

get_category_summary(inv) ==
    [inv |-> inv, ret |-> SummaryFrom(inv, 1, <<>>), save |-> FALSE]

\* one call of a query whose outcome is r
Query(op, r) ==
    /\ inventory' = r.inv
    /\ file' = IF r.save THEN save_inventory(r.inv, file, "none") ELSE file
    /\ report' = r.ret
    /\ last' = [op |-> op, out |-> "", ret |-> "None"]
    /\ UNCHANGED <<today, faults>>

GetTotalInventoryValue ==
    Query("get_total_inventory_value", get_total_inventory_value(inventory))

GetCategorySummary ==
    Query("get_category_summary", get_category_summary(inventory))

\* stores for the queries: records P1, P2, ... in order, each with a
\* category, a quantity, a unit price and a supplier
\* list.sort(key=value, reverse=True) that puts equal values in reverse order
RECURSIVE InsertDesc_unstable(_, _)
InsertDesc_unstable(row, sorted) ==
    IF sorted = <<>> THEN <<row>>
    ELSE IF Head(sorted).value > row.value
         THEN <<Head(sorted)>> \o InsertDesc_unstable(row, Tail(sorted))
         ELSE <<row>> \o sorted

\* list.sort(key=value, reverse=True) is stable: a row goes after every row
\* of greater or equal value that came before it
RECURSIVE InsertDesc(_, _)
InsertDesc(row, sorted) ==
    IF sorted = <<>> THEN <<row>>
    ELSE IF Head(sorted).value >= row.value
         THEN <<Head(sorted)>> \o InsertDesc(row, Tail(sorted))
         ELSE <<row>> \o sorted

RECURSIVE SortDesc(_, _, _)
SortDesc(rows, i, sorted) ==
    IF i > Len(rows) THEN sorted
    ELSE SortDesc(rows, i + 1, InsertDesc(rows[i], sorted))

\* products_with_value: (product, qty * price) for each product, in list order
products_with_value(inv) ==
    [i \in 1..Len(inv) |->
        [product |-> inv[i],
         value |-> FloatMul(int(inv[i].quantity), float(inv[i].unit_price))]]

\* list[:n]: the first n elements, or all but the last -n when n is negative
SliceTo(list, n) ==
    IF n >= 0
    THEN SubSeq(list, 1, IF n < Len(list) THEN n ELSE Len(list))
    ELSE SubSeq(list, 1, IF Len(list) + n > 0 THEN Len(list) + n ELSE 0)

\* show_top_products_by_value: the header names top_n, the rows are the
\* first top_n products of the list sorted by value, descending
show_top_products_by_value(inv, top_n) ==
    [inv |-> inv,
     ret |-> [top_n |-> top_n,
              rows |-> SliceTo(SortDesc(products_with_value(inv), 1, <<>>), top_n)],
     save |-> FALSE]

ShowTopProductsByValue ==
    \E top_n \in 0..MaxTopN :
        Query("show_top_products_by_value",
              show_top_products_by_value(inventory, top_n))

AggCategories == {<<"E">>, <<"F">>}
AggQuantities == {<<"1">>, <<"2">>}
AggPrices == {<<"1">>, <<"8">>}
AggChoices == AggCategories \X AggQuantities \X AggPrices

AggProduct(i, c) ==
    [product_id |-> <<"P">> \o str(i), product_name |-> <<"a">>, category |-> c[1],
     quantity |-> c[2], unit_price |-> c[3], reorder_level |-> <<"1">>,
     supplier |-> <<"S">>, warehouse_location |-> <<"L">>,
     last_updated |-> strftime(1)]

InitAgg ==
    /\ \E n \in 0..MaxAggLen : \E f \in [1..n -> AggChoices] :
          inventory = [i \in 1..n |-> AggProduct(i, f[i])]
    /\ file = save_inventory(inventory, NoFile, "none")
    /\ today = 1
    /\ faults = 0
    /\ last = NoCall
    /\ report = NoReport

NextAgg ==
    \/ last.op = "init" /\ GetTotalInventoryValue
    \/ last.op = "init" /\ GetCategorySummary
    \/ last.op = "init" /\ ShowTopProductsByValue

SpecAgg == InitAgg /\ [][NextAgg]_vars

\* ord: the code point of a character
ord(c) ==
    CASE c = "-" -> 45
      [] IsDigit(c) -> 48 + DigitVal(c)
      [] c = "E" -> 69
      [] c = "F" -> 70
      [] c = "L" -> 76
      [] c = "P" -> 80
      [] c = "S" -> 83
      [] c = "T" -> 84
      [] c = "a" -> 97
      [] c = "e" -> 101
      [] c = "f" -> 102
      [] c = "l" -> 108
      [] c = "p" -> 112
      [] c = "s" -> 115
      [] c = "t" -> 116

\* s < t for two str: the first differing character decides, a proper
\* prefix comes first
RECURSIVE StrLess(_, _)
StrLess(s, t) ==
    IF t = <<>> THEN FALSE
    ELSE IF s = <<>> THEN TRUE
    ELSE IF Head(s) = Head(t) THEN StrLess(Tail(s), Tail(t))
    ELSE ord(Head(s)) < ord(Head(t))

\* the position of a supplier in by_supplier, 0 when it has no entry yet
GroupOf(by_supplier, supplier) ==
    IF \E k \in 1..Len(by_supplier) : by_supplier[k].supplier = supplier
    THEN CHOOSE k \in 1..Len(by_supplier) : by_supplier[k].supplier = supplier
    ELSE 0

\* by_supplier[product['supplier']].append(product), for each low-stock product
RECURSIVE BySupplierFrom(_, _, _)
BySupplierFrom(low_stock, i, by_supplier) ==
    IF i > Len(low_stock) THEN by_supplier
    ELSE LET product == low_stock[i]
             b1 == IF GroupOf(by_supplier, product.supplier) = 0
                   THEN Append(by_supplier,
                               [supplier |-> product.supplier, products |-> <<>>])
                   ELSE by_supplier
             k == GroupOf(b1, product.supplier)
         IN BySupplierFrom(low_stock, i + 1,
               [b1 EXCEPT ![k].products = Append(@, product)])

\* sorted(by_supplier.items()): the keys are distinct, so the supplier decides
RECURSIVE InsertGroup(_, _)
InsertGroup(group, sorted) ==
    IF sorted = <<>> THEN <<group>>
    ELSE IF StrLess(group.supplier, Head(sorted).supplier)
         THEN <<group>> \o sorted
         ELSE <<Head(sorted)>> \o InsertGroup(group, Tail(sorted))

RECURSIVE SortedItems(_, _, _)
SortedItems(by_supplier, i, sorted) ==
    IF i > Len(by_supplier) THEN sorted
    ELSE SortedItems(by_supplier, i + 1, InsertGroup(by_supplier[i], sorted))

\* the lines printed for the products of one supplier
Recommend(products) ==
    [k \in 1..Len(products) |->
        LET qty == int(products[k].quantity)
            reorder == int(products[k].reorder_level)
        IN [product |-> products[k], shortage |-> reorder * 2 - qty]]

Recommendations(groups) ==
    [g \in 1..Len(groups) |->
        [supplier |-> groups[g].supplier, items |-> Recommend(groups[g].products)]]

\* show_reorder_recommendations with the suppliers in the order of by_supplier
show_reorder_recommendations_unsorted(inv) ==
    LET low_stock == get_low_stock_items(inv).ret
    IN [inv |-> inv,
        ret |-> IF low_stock = <<>> THEN <<>>
                ELSE Recommendations(BySupplierFrom(low_stock, 1, <<>>)),
        save |-> FALSE]

\* show_reorder_recommendations: nothing to list when no product is low,
\* else the low-stock products by supplier, with the quantity to order
show_reorder_recommendations(inv) ==
    LET low_stock == get_low_stock_items(inv).ret
    IN [inv |-> inv,
        ret |-> IF low_stock = <<>> THEN <<>>
                ELSE Recommendations(
                        SortedItems(BySupplierFrom(low_stock, 1, <<>>), 1, <<>>)),
        save |-> FALSE]

ShowReorderRecommendations ==
    Query("show_reorder_recommendations", show_reorder_recommendations(inventory))

\* stores for the recommendations: records P1, P2, ... with a quantity in
\* -1..MaxReQty, a reorder level in 0..MaxReReorder and one of three suppliers
ReSuppliers == {<<"T">>, <<"S">>, <<"S", "a">>}
ReChoices == ((0 - 1)..MaxReQty) \X (0..MaxReReorder) \X ReSuppliers

ReProduct(i, c) ==
    [product_id |-> <<"P">> \o str(i), product_name |-> <<"a">>, category |-> <<"E">>,
     quantity |-> str(c[1]), unit_price |-> <<"3">>, reorder_level |-> str(c[2]),
     supplier |-> c[3], warehouse_location |-> <<"L">>,
     last_updated |-> strftime(1)]

InitReorder ==
    /\ \E n \in 0..MaxReLen : \E f \in [1..n -> ReChoices] :
          inventory = [i \in 1..n |-> ReProduct(i, f[i])]
    /\ file = save_inventory(inventory, NoFile, "none")
    /\ today = 1
    /\ faults = 0
    /\ last = NoCall
    /\ report = NoReport

NextReorder == last.op = "init" /\ ShowReorderRecommendations

SpecReorder == InitReorder /\ [][NextReorder]_vars

\* ----------------------------------------------------------- the queries
\* str.lower(), character by character
lower_char(c) ==
    CASE c = "E" -> "e"
      [] c = "F" -> "f"
      [] c = "L" -> "l"
      [] c = "P" -> "p"
      [] c = "S" -> "s"
      [] c = "T" -> "t"
      [] OTHER -> c

lower(s) == [i \in 1..Len(s) |-> lower_char(s[i])]

\* sub in s, for two str
Contains(sub, s) ==
    \E i \in 0..(Len(s) - Len(sub)) : SubSeq(s, i + 1, i + Len(sub)) = sub

\* get_product as a call: the product found, or None
get_product_call(inv, product_id) ==
    [inv |-> inv,
     ret |-> IF get_product(inv, product_id) = 0 THEN "None"
             ELSE inv[get_product(inv, product_id)],
     save |-> FALSE]

get_inventory_by_category(inv, category) ==
    [inv |-> inv,
     ret |-> SelectSeq(inv, LAMBDA p : lower(p.category) = lower(category)),
     save |-> FALSE]

get_inventory_by_supplier(inv, supplier) ==
    [inv |-> inv,
     ret |-> SelectSeq(inv, LAMBDA p : Contains(lower(supplier), lower(p.supplier))),
     save |-> FALSE]

\* search_products that lowers the names in the list itself
search_products_inplace(inv, keyword) ==
    LET lowered == [i \in 1..Len(inv) |->
                       SetItem(inv[i], "product_name", lower(inv[i].product_name))]
    IN [inv |-> lowered,
        ret |-> SelectSeq(lowered,
                    LAMBDA p : \/ Contains(lower(keyword), p.product_name)
                               \/ Contains(lower(keyword), lower(p.category))),
        save |-> FALSE]

\* search_products: the keyword, lowered, in the lowered name or category
search_products(inv, keyword) ==
    [inv |-> inv,
     ret |-> SelectSeq(inv,
                 LAMBDA p : \/ Contains(lower(keyword), lower(p.product_name))
                            \/ Contains(lower(keyword), lower(p.category))),
     save |-> FALSE]

GetProduct(product_id) ==
    Query("get_product", get_product_call(inventory, product_id))

GetInventoryByCategory(category) ==
    Query("get_inventory_by_category", get_inventory_by_category(inventory, category))

GetInventoryBySupplier(supplier) ==
    Query("get_inventory_by_supplier", get_inventory_by_supplier(inventory, supplier))

SearchProducts(keyword) ==
    Query("search_products", search_products(inventory, keyword))

\* stores for the queries: records P1, P2, ... with names, categories and
\* suppliers in mixed case, and the file either absent or as last saved
ReadNames == {<<"T", "e">>, <<"a">>}
ReadCategories == {<<"E">>, <<"F">>}
ReadSuppliers == {<<"S", "a">>, <<"T">>}
ReadQuantities == {<<"1">>, <<"2">>}
ReadChoices == ReadNames \X ReadCategories \X ReadSuppliers \X ReadQuantities
ReadKeywords == {<<"e">>, <<"T">>, <<"s", "A">>}

ReadProduct(i, c) ==
    [product_id |-> <<"P">> \o str(i), product_name |-> c[1], category |-> c[2],
     quantity |-> c[4], unit_price |-> <<"3">>, reorder_level |-> <<"1">>,
     supplier |-> c[3], warehouse_location |-> <<"L">>,
     last_updated |-> strftime(1)]

InitRead ==
    /\ \E n \in 0..MaxReadLen : \E f \in [1..n -> ReadChoices] :
          inventory = [i \in 1..n |-> ReadProduct(i, f[i])]
    /\ file \in {NoFile, save_inventory(inventory, NoFile, "none")}
    /\ today = MaxDay
    /\ faults = 0
    /\ last = NoCall
    /\ report = NoReport

NextRead ==
    \/ \E id \in LookupIds : GetProduct(id)
    \/ \E category \in ReadKeywords : GetInventoryByCategory(category)
    \/ \E supplier \in ReadKeywords : GetInventoryBySupplier(supplier)
    \/ \E keyword \in ReadKeywords : SearchProducts(keyword)
    \/ GetLowStockItems
    \/ GetTotalInventoryValue
    \/ GetCategorySummary

SpecRead == InitRead /\ [][NextRead]_vars

Next ==
    \/ Tick
    \/ \E p \in NewProducts : AddProduct(p)
    \/ \E p \in NewProducts : HandleAddProduct(p)
    \/ \E id \in LookupIds, u \in UpdateMaps : UpdateProduct(id, u)
    \/ \E id \in LookupIds : DeleteProduct(id)
    \/ \E id \in LookupIds, d \in Deltas : UpdateQuantity(id, d)
    \/ Restart

Spec == Init /\ [][Next]_vars

\* ------------------------------------------------------------- properties
HasId(inv, product_id) == \E i \in 1..Len(inv) : inv[i].product_id = product_id

\* the steps of the four mutating operations of the store
AddStep == \E p \in NewProducts : AddProduct(p)
UpdateStep == \E id \in LookupIds, u \in UpdateMaps : UpdateProduct(id, u)
DeleteStep == \E id \in LookupIds : DeleteProduct(id)
QuantityStep == \E id \in LookupIds, d \in Deltas : UpdateQuantity(id, d)
MutationStep == AddStep \/ UpdateStep \/ DeleteStep \/ QuantityStep

\* the status lines of an operation that changed the store
Succeeded(call) == call.out \in {"added", "updated", "deleted", "quantity updated"}

\* C1: no two records of the store share a product_id.
C1_Uniqueness ==
    \A i, j \in 1..Len(inventory) :
        i # j => inventory[i].product_id # inventory[j].product_id

\* C2: every record of the store has quantity >= 0.
C2_NonNegativity ==
    \A i \in 1..Len(inventory) : int(inventory[i].quantity) >= 0

\* what update_quantity(id, d) must leave behind, by the case it is in
AdjustPost(id, d) ==
    LET i == FirstIndex(inventory, id) IN
    IF i = 0
    THEN inventory' = inventory /\ file' = file /\ last'.ret = "False"
    ELSE LET current == int(inventory[i].quantity) IN
         IF current + d < 0
         THEN inventory' = inventory /\ file' = file /\ last'.ret = "False"
         ELSE /\ Len(inventory') = Len(inventory)
              /\ int(inventory'[i].quantity) = current + d
              /\ last'.ret = "True"

\* C3: update_quantity(id, delta) rejects a delta that would take the
\* quantity below zero and leaves the whole store as it was; otherwise the
\* quantity becomes current + delta and the call succeeds; an unknown id
\* fails and leaves the store as it was.
C3_AdjustQuantity ==
    [][last'.op = "update_quantity" =>
          \A id \in LookupIds, d \in Deltas : UpdateQuantity(id, d) => AdjustPost(id, d)]_vars

\* a rejected adjustment: the record is still there with a quantity >= 0
C3_Witness ==
    /\ last.op = "update_quantity"
    /\ last.out = "below 0"
    /\ \E i \in 1..Len(inventory) : int(inventory[i].quantity) = 0

\* a record add must refuse against this store
Refused(inv, product_data) ==
    \/ HasId(inv, product_data.product_id)
    \/ \E k \in DOMAIN product_data : product_data[k] = <<>>

\* C4: add(record) fails and leaves the store unchanged whenever the id is
\* already in the store or a required field is empty.
C4_AddRejects ==
    [][\A p \in NewProducts :
          (AddProduct(p) /\ Refused(inventory, p)) => inventory' = inventory]_vars

\* what update_product(id, u) must leave behind
UpdatePost(id, u) ==
    LET i == FirstIndex(inventory, id) IN
    IF i = 0
    THEN inventory' = inventory /\ file' = file /\ last'.ret = "False"
    ELSE /\ last'.ret = "True"
         /\ Len(inventory') = Len(inventory)
         /\ \A j \in 1..Len(inventory) : j # i => inventory'[j] = inventory[j]
         /\ DOMAIN inventory'[i] = (DOMAIN inventory[i]) \cup (DOMAIN u) \cup {"last_updated"}
         /\ \A k \in DOMAIN inventory[i] :
               k \notin (DOMAIN u) \cup {"last_updated"} => inventory'[i][k] = inventory[i][k]
         /\ \A k \in DOMAIN u : k # "last_updated" => inventory'[i][k] = u[k]
         /\ inventory'[i]["last_updated"] = strftime(today)

\* C5: update_product(id, partial map) changes, in the matching record, only
\* the fields of the map and last_updated, and no other record; on an id
\* that is not in the store it fails and changes nothing.
C5_UpdateFrame ==
    [][last'.op = "update_product" =>
          \A id \in LookupIds, u \in UpdateMaps : UpdateProduct(id, u) => UpdatePost(id, u)]_vars

\* an update went through in a store of two records, one of them restamped
C5_Witness ==
    /\ last.op = "update_product"
    /\ last.ret = "True"
    /\ Len(inventory) = 2
    /\ inventory[1]["last_updated"] # inventory[2]["last_updated"]

\* the records of inv whose id is not product_id, in their order
RECURSIVE Others(_, _)
Others(inv, product_id) ==
    IF inv = <<>> THEN <<>>
    ELSE IF Head(inv).product_id = product_id THEN Others(Tail(inv), product_id)
    ELSE <<Head(inv)>> \o Others(Tail(inv), product_id)

\* C6: delete_product(id) on an id of the store removes the record and
\* succeeds, get_product(id) is None afterwards and the other records stay
\* as they were; on an id not in the store it reports failure and changes
\* nothing.
C6_Delete ==
    [][\A id \in LookupIds :
          (last'.op = "delete_product" /\ DeleteProduct(id)) =>
             IF HasId(inventory, id)
             THEN /\ last'.ret = "True"
                  /\ ~HasId(inventory', id)
                  /\ inventory' = Others(inventory, id)
             ELSE /\ last'.ret = "False"
                  /\ inventory' = inventory
                  /\ file' = file]_vars

\* a delete removed a record and left another one behind
C6_Witness ==
    /\ last.op = "delete_product"
    /\ last.ret = "True"
    /\ Len(inventory) = 1

\* C7: after every successful mutating operation that met no I/O fault,
\* the file holds exactly the in-memory list, so that loading it gives the
\* in-memory store back.
C7_PersistedAfterMutation ==
    [][(Succeeded(last') /\ faults' = faults /\ MutationStep) =>
          load_inventory(<<>>, file', "none") = inventory']_vars

\* C8: when the save after a mutating operation fails, the operation still
\* returns normally and the store keeps the mutation.
C8_NoRollback ==
    [][(faults' > faults) =>
          /\ last'.ret # "raise"
          /\ \A p \in NewProducts :
                AddProduct(p) =>
                   /\ Len(inventory') = Len(inventory) + 1
                   /\ SubSeq(inventory', 1, Len(inventory)) = inventory
                   /\ \A k \in DOMAIN p : inventory'[Len(inventory')][k] = p[k]
          /\ \A id \in LookupIds, u \in UpdateMaps : UpdateProduct(id, u) => UpdatePost(id, u)
          /\ \A id \in LookupIds : DeleteProduct(id) => inventory' = Others(inventory, id)
          /\ \A id \in LookupIds, d \in Deltas : UpdateQuantity(id, d) => AdjustPost(id, d)]_vars

\* an add whose save failed: the record is in memory and not in the file
C8_Witness ==
    /\ last.op = "add_product"
    /\ faults = 1
    /\ inventory # <<>>
    /\ file.rows # inventory

\* the four bucket names, and membership of a record in a list
BucketNames == {"critical", "low", "normal", "high"}
InList(x, list) == \E k \in 1..Len(list) : list[k] = x

\* C9: the four buckets are pairwise disjoint, their union is the full
\* record set and their sizes sum to the number of records.
C9_Partition ==
    last.op = "show_stock_distribution" =>
        /\ \A i \in 1..Len(inventory) :
              Cardinality({b \in BucketNames : InList(inventory[i], report[b])}) = 1
        /\ \A b \in BucketNames : \A k \in 1..Len(report[b]) : InList(report[b][k], inventory)
        /\ Len(report.critical) + Len(report.low) + Len(report.normal) + Len(report.high)
              = Len(inventory)

\* two records in different buckets
C9_Witness ==
    /\ last.op = "show_stock_distribution"
    /\ Len(inventory) = 2
    /\ Len(report.critical) = 1
    /\ Len(report.high) = 1

RECURSIVE SumValues(_)
SumValues(summary) ==
    IF summary = <<>> THEN 0
    ELSE FloatAdd(SumValues(SubSeq(summary, 1, Len(summary) - 1)),
                  summary[Len(summary)].total_value)

RECURSIVE SumCounts(_)
SumCounts(summary) ==
    IF summary = <<>> THEN 0 ELSE Head(summary).count + SumCounts(Tail(summary))

\* C11: the total_value entries of category_summary() add up to
\* total_value(), the counts add up to the number of records, and there is
\* one entry for each category present and no other.
C11_AggregationConsistency ==
    last.op = "get_category_summary" =>
        /\ SumValues(report) = get_total_inventory_value(inventory).ret
        /\ SumCounts(report) = Len(inventory)
        /\ {report[k].category : k \in 1..Len(report)}
              = {inventory[i].category : i \in 1..Len(inventory)}
        /\ \A j, k \in 1..Len(report) : j # k => report[j].category # report[k].category

\* the records of inv at or below their reorder level, in their order
RECURSIVE AtOrBelow(_)
AtOrBelow(inv) ==
    IF inv = <<>> THEN <<>>
    ELSE IF int(Head(inv).quantity) <= int(Head(inv).reorder_level)
         THEN <<Head(inv)>> \o AtOrBelow(Tail(inv))
         ELSE AtOrBelow(Tail(inv))

\* C12: low_stock_items() is exactly the records with quantity <=
\* reorder_level, in store order: a record at its reorder level is in it,
\* a record above it is not.
C12_LowStockInclusive ==
    last.op = "get_low_stock_items" =>
        /\ report = AtOrBelow(inventory)
        /\ \A i \in 1..Len(inventory) :
              LET p == inventory[i] IN
              /\ int(p.quantity) = int(p.reorder_level) => InList(p, report)
              /\ int(p.quantity) > int(p.reorder_level) => ~InList(p, report)

\* one record at its reorder level and listed, one above it and left out
C12_Witness ==
    /\ last.op = "get_low_stock_items"
    /\ Len(inventory) = 2
    /\ int(inventory[1].quantity) > int(inventory[1].reorder_level)
    /\ int(inventory[2].quantity) = int(inventory[2].reorder_level)
    /\ report = <<inventory[2]>>

\* the position in the store of the record with this product_id
PositionOf(product) ==
    CHOOSE k \in 1..Len(inventory) : inventory[k] = product

ValueOf(product) == FloatMul(int(product.quantity), float(product.unit_price))

\* C13: top_by_value(n) holds min(n, size) records of the store, each with
\* its value quantity * unit_price; the values are non-increasing, records
\* of equal value are in store order, no record left out is worth more than
\* a listed one, and the list is a prefix of top_by_value(n + 1).
C13_TopNStability ==
    last.op = "show_top_products_by_value" =>
        LET rows == report.rows
            n == report.top_n
            next == show_top_products_by_value(inventory, n + 1).ret.rows
        IN /\ Len(rows) = (IF n < Len(inventory) THEN n ELSE Len(inventory))
           /\ \A i \in 1..Len(rows) :
                 /\ InList(rows[i].product, inventory)
                 /\ rows[i].value = ValueOf(rows[i].product)
           /\ \A i, j \in 1..Len(rows) :
                 i < j =>
                     /\ rows[i].value >= rows[j].value
                     /\ rows[i].value = rows[j].value =>
                            PositionOf(rows[i].product) < PositionOf(rows[j].product)
           /\ \A k \in 1..Len(inventory) :
                 (\A i \in 1..Len(rows) : rows[i].product # inventory[k]) =>
                     \A i \in 1..Len(rows) :
                         \/ rows[i].value > ValueOf(inventory[k])
                         \/ /\ rows[i].value = ValueOf(inventory[k])
                            /\ PositionOf(rows[i].product) < k
           /\ Len(rows) <= Len(next)
           /\ rows = SubSeq(next, 1, Len(rows))

\* three records, the first worth less than the two others, which are of
\* equal value: the top two are the second and the third, in that order
C13_Witness ==
    /\ last.op = "show_top_products_by_value"
    /\ Len(inventory) = 3
    /\ report.top_n = 2
    /\ Len(report.rows) = 2
    /\ report.rows[1].product = inventory[2]
    /\ report.rows[2].product = inventory[3]
    /\ report.rows[1].value = report.rows[2].value
    /\ ValueOf(inventory[1]) < report.rows[2].value

\* the records listed in the recommendations, group after group
RECURSIVE Listed(_)
Listed(groups) ==
    IF groups = <<>> THEN <<>>
    ELSE [k \in 1..Len(Head(groups).items) |-> Head(groups).items[k].product]
         \o Listed(Tail(groups))

RECURSIVE IsSubsequence(_, _)
IsSubsequence(s, t) ==
    IF s = <<>> THEN TRUE
    ELSE IF t = <<>> THEN FALSE
    ELSE \/ Head(s) = Head(t) /\ IsSubsequence(Tail(s), Tail(t))
         \/ IsSubsequence(s, Tail(t))

\* the positions at which two lists of one length differ
Changed(before, after) == {j \in 1..Len(before) : after[j] # before[j]}

\* C15: the store keeps insertion order: add puts the new record after all
\* the records there were, which keep their positions; update and
\* adjust_quantity keep the length and change at most the one record they
\* address, in place; delete leaves the remaining records in the order they
\* had.
C15_InsertionOrder ==
    [][/\ (last'.op = "add_product" /\ AddStep) =>
              /\ Len(inventory') = Len(inventory) + 1
              /\ SubSeq(inventory', 1, Len(inventory)) = inventory
       /\ (last'.op = "handle_add_product"
              /\ \E p \in NewProducts : HandleAddProduct(p)) =>
              \/ inventory' = inventory
              \/ /\ Len(inventory') = Len(inventory) + 1
                 /\ SubSeq(inventory', 1, Len(inventory)) = inventory
       /\ (last'.op = "update_product" /\ UpdateStep) =>
              /\ Len(inventory') = Len(inventory)
              /\ Cardinality(Changed(inventory, inventory')) <= 1
       /\ (last'.op = "update_quantity" /\ QuantityStep) =>
              /\ Len(inventory') = Len(inventory)
              /\ Cardinality(Changed(inventory, inventory')) <= 1
       /\ (last'.op = "delete_product" /\ DeleteStep) =>
              /\ Len(inventory') <= Len(inventory)
              /\ IsSubsequence(inventory', inventory)]_vars

\* a record added on the second day stands after the record of the first day
C15_Witness ==
    /\ last.op = "add_product"
    /\ Len(inventory) = 2
    /\ inventory[1]["last_updated"] = strftime(1)
    /\ inventory[2]["last_updated"] = strftime(2)

ReadOps ==
    {"get_product", "get_inventory_by_category", "get_inventory_by_supplier",
     "search_products", "get_low_stock_items", "get_total_inventory_value",
     "get_category_summary"}

\* C16: a call of get_product, get_inventory_by_category,
\* get_inventory_by_supplier, search_products, get_low_stock_items,
\* get_total_inventory_value or get_category_summary leaves the list of
\* records, every field of every record (last_updated too) and the data
\* file as they were (a step that ends with last.op in ReadOps is a call of
\* one of them: no other action of the specification sets it).
C16_ReadsPure ==
    [][last'.op \in ReadOps =>
          /\ inventory' = inventory
          /\ \A i \in 1..Len(inventory) :
                inventory'[i]["last_updated"] = inventory[i]["last_updated"]
          /\ file' = file]_vars

\* a search that matched the first of two records by its name in another
\* case, on a day after the records were stamped, with the file on disk
C16_Witness ==
    /\ last.op = "search_products"
    /\ Len(inventory) = 2
    /\ report = <<inventory[1]>>
    /\ inventory[1].product_name = <<"T", "e">>
    /\ inventory[1]["last_updated"] # strftime(today)
    /\ file.exists

\* the records of a list, as a set
Records(list) == {list[k] : k \in 1..Len(list)}

RestoredBy(before, after, id, d) ==
    LET back == update_quantity(after, id, 0 - d, today)
        i == FirstIndex(before, id)
    IN /\ back.ret = "True"
       /\ Len(back.inv) = Len(before)
       /\ \A j \in 1..Len(before) : j # i => back.inv[j] = before[j]
       /\ int(back.inv[i].quantity) = int(before[i].quantity)
       /\ \A k \in DOMAIN before[i] :
             k \notin {"quantity", "last_updated"} => back.inv[i][k] = before[i][k]

\* C18: for a record of the store with quantity q and a delta d with
\* q + d >= 0, update_quantity(id, d) succeeds, and update_quantity(id, -d)
\* right after it succeeds too and restores q, every other field of the
\* record but last_updated, and every other record.
C18_AdjustRoundTrip ==
    [][\A id \in LookupIds, d \in Deltas :
          (/\ last'.op = "update_quantity"
           /\ UpdateQuantity(id, d)
           /\ HasId(inventory, id)
           /\ int(inventory[FirstIndex(inventory, id)].quantity) + d >= 0) =>
              /\ last'.ret = "True"
              /\ RestoredBy(inventory, inventory', id, d)]_vars
====
